---- MODULE Spec2Model ----
(***************************************************************************)
(* A model of the CDN proxy worker (worker-cdn.js) and its Node adapter    *)
(* (server.js): HTTPS redirect, CORS preflight, purge endpoint and the     *)
(* signed storage proxy pipeline.                                          *)
(*                                                                         *)
(* Strings are TLA+ strings; a JavaScript value that may be null or        *)
(* undefined is an option: <<>> when absent, <<v>> when present.           *)
(***************************************************************************)
EXTENDS Integers, Sequences, FiniteSets, TLC

VARIABLES
    env,            \* process environment handed to the worker (server.js env)
    s3Config,       \* the storage configuration imported from secret/aws-s3.json
    pc,             \* position of handleRequest: idle, storage, purgeApi,
                    \* streaming, done; crashed when the process has exited
    node,           \* the Node IncomingMessage being handled
    req,            \* the Web Request built from it
    upstream,       \* the request sent to the storage origin, if any
    purgeCall,      \* the request sent to the CDN purge API, if any
    resp,           \* the response written back to the client, if any
    storageCalls,   \* storage fetches made for the current request
    purgeCalls,     \* purge-API fetches made for the current request
    storageResp,    \* the response the storage origin gave, if any
    apiResp,        \* the response the CDN purge API gave, if any
    res,            \* the Node ServerResponse of the request being handled
    error,          \* the stage at which an exception was thrown, if any
    clock,          \* the system clock, as an index into Ticks
    calls           \* the invocations of signAwsRequest: position and locals

vars == <<env, s3Config, pc, node, req, upstream, purgeCall, resp, storageCalls, purgeCalls,
          storageResp, apiResp, res, error, clock, calls>>

None == <<>>
Some(v) == <<v>>

\* JavaScript truthiness of an optional string (undefined and "" are falsy).
Truthy(o) == o # None /\ o[1] # ""

\* o || default
OrElse(o, default) == IF Truthy(o) THEN o[1] ELSE default

-----------------------------------------------------------------------------
(* String helpers (String.prototype methods used by the source).           *)

CharAt(s, i) == SubSeq(s, i, i)

StartsWith(s, p) == Len(s) >= Len(p) /\ SubSeq(s, 1, Len(p)) = p

EndsWith(s, p) == Len(s) >= Len(p) /\ SubSeq(s, Len(s) - Len(p) + 1, Len(s)) = p

Includes(s, p) == \E i \in 1..(Len(s) - Len(p) + 1) : SubSeq(s, i, i + Len(p) - 1) = p

\* Index at or after i of the first occurrence of the one-character string c,
\* 0 if none.
RECURSIVE IndexFrom(_, _, _)
IndexFrom(s, c, i) ==
    IF i > Len(s) THEN 0 ELSE IF CharAt(s, i) = c THEN i ELSE IndexFrom(s, c, i + 1)

IndexOf(s, c) == IndexFrom(s, c, 1)

\* Index at or before i of the last occurrence of the one-character string c,
\* 0 if none.
RECURSIVE IndexBack(_, _, _)
IndexBack(s, c, i) ==
    IF i < 1 THEN 0 ELSE IF CharAt(s, i) = c THEN i ELSE IndexBack(s, c, i - 1)

LastIndexOf(s, c) == IndexBack(s, c, Len(s))

LowerTable ==
    [c \in {"A", "B", "C", "D", "E", "F", "G", "H", "I", "J", "K", "L", "M", "N", "O",
            "P", "Q", "R", "S", "T", "U", "V", "W", "X", "Y", "Z"} |->
        CharAt("abcdefghijklmnopqrstuvwxyz",
               IndexFrom("ABCDEFGHIJKLMNOPQRSTUVWXYZ", c, 1))]

LowerChar(c) == IF c \in DOMAIN LowerTable THEN LowerTable[c] ELSE c

RECURSIVE LowerString(_)
LowerString(s) ==
    IF s = "" THEN "" ELSE LowerChar(CharAt(s, 1)) \o LowerString(SubSeq(s, 2, Len(s)))

\* The header names the program itself writes, lower-cased once.
LiteralNames ==
    {"Access-Control-Allow-Origin", "Access-Control-Allow-Methods",
     "Access-Control-Allow-Headers", "Access-Control-Max-Age", "Content-Type",
     "content-type", "Accept-Ranges", "Cache-Control", "Vary", "Pragma", "Expires",
     "Host", "Origin", "Location", "Authorization", "x-amz-date", "x-amz-content-sha256",
     "x-forwarded-host", "x-host", "x-forwarded-scheme", "x-original-url",
     "x-rewrite-url", "forwarded", "origin"}

LoweredLiterals == [s \in LiteralNames |-> LowerString(s)]

\* String.prototype.toLowerCase
ToLowerCase(s) == IF s \in LiteralNames THEN LoweredLiterals[s] ELSE LowerString(s)

IsSpace(c) == c = " "

RECURSIVE TrimStart(_)
TrimStart(s) ==
    IF s # "" /\ IsSpace(CharAt(s, 1)) THEN TrimStart(SubSeq(s, 2, Len(s))) ELSE s

RECURSIVE TrimEnd(_)
TrimEnd(s) ==
    IF s # "" /\ IsSpace(CharAt(s, Len(s))) THEN TrimEnd(SubSeq(s, 1, Len(s) - 1)) ELSE s

Trim(s) == TrimEnd(TrimStart(s))

\* s.split(c) for a one-character separator: a sequence of strings.
RECURSIVE SplitAt(_, _, _)
SplitAt(s, c, i) ==
    IF i = 0 THEN <<s>>
    ELSE <<SubSeq(s, 1, i - 1)>>
         \o SplitAt(SubSeq(s, i + 1, Len(s)), c, IndexOf(SubSeq(s, i + 1, Len(s)), c))

Split(s, c) == SplitAt(s, c, IndexOf(s, c))

RECURSIVE SeqFilterNonEmpty(_)
SeqFilterNonEmpty(q) ==
    IF q = <<>> THEN <<>>
    ELSE IF Head(q) = "" THEN SeqFilterNonEmpty(Tail(q))
         ELSE <<Head(q)>> \o SeqFilterNonEmpty(Tail(q))

-----------------------------------------------------------------------------
(* The Web Headers class: names are case-insensitive and stored            *)
(* lower-cased; a Headers object is a function from lower-cased names to   *)
(* values.                                                                 *)

EmptyHeaders == [n \in {} |-> ""]

\* The entry under the lower-cased name k is written.
PutEntry(h, k, value) == [n \in (DOMAIN h) \cup {k} |-> IF n = k THEN value ELSE h[n]]

HeadersSet(h, name, value) == PutEntry(h, ToLowerCase(name), value)

HeadersDelete(h, name) == [n \in (DOMAIN h) \ {ToLowerCase(name)} |-> h[n]]

GetEntry(h, k) == IF k \in DOMAIN h THEN Some(h[k]) ELSE None

HeadersGet(h, name) == GetEntry(h, ToLowerCase(name))

\* new Headers(init) / a loop of set() over a sequence of <<name, value>> pairs.
RECURSIVE HeadersFrom(_, _)
HeadersFrom(h, pairs) ==
    IF pairs = <<>> THEN h
    ELSE HeadersFrom(HeadersSet(h, Head(pairs)[1], Head(pairs)[2]), Tail(pairs))

-----------------------------------------------------------------------------
(* The WHATWG URL class, for the URLs the program handles: a scheme, then  *)
(* for http/https an authority (host[:port]), a path and a query.  Inputs  *)
(* hold no userinfo and no fragment.                                       *)

LetterChars == "abcdefghijklmnopqrstuvwxyzABCDEFGHIJKLMNOPQRSTUVWXYZ"

IsSchemeString(s) ==
    /\ s # ""
    /\ IndexOf(LetterChars, CharAt(s, 1)) # 0
    /\ \A i \in 1..Len(s) : IndexOf(LetterChars \o "0123456789+-.", CharAt(s, i)) # 0

\* Index at or after i of the first character of s that is one of the
\* characters of set, Len(s) + 1 if none.
RECURSIVE FirstOfFrom(_, _, _)
FirstOfFrom(s, set, i) ==
    IF i > Len(s) THEN Len(s) + 1
    ELSE IF IndexOf(set, CharAt(s, i)) # 0 THEN i ELSE FirstOfFrom(s, set, i + 1)

FirstOf(s, set) == FirstOfFrom(s, set, 1)

RECURSIVE SkipSlashes(_)
SkipSlashes(s) ==
    IF s # "" /\ CharAt(s, 1) \in {"/", "\\"} THEN SkipSlashes(SubSeq(s, 2, Len(s))) ELSE s

DefaultPort(scheme) ==
    CASE scheme = "http" -> "80" [] scheme = "https" -> "443" [] OTHER -> ""

InvalidURL ==
    [ok |-> FALSE, protocol |-> "", hostname |-> "", port |-> "", pathname |-> "",
     search |-> ""]

\* The part of a URL after its authority: pathname and search; q is the
\* index of the first "?" of tail.
PathAndQueryAt(scheme, tail, q) ==
    [pathname |-> IF (q = 1 \/ tail = "") /\ DefaultPort(scheme) # "" THEN "/"
                  ELSE IF q = 0 THEN tail ELSE SubSeq(tail, 1, q - 1),
     search   |-> IF q = 0 \/ q = Len(tail) THEN "" ELSE SubSeq(tail, q, Len(tail))]

PathAndQuery(scheme, tail) == PathAndQueryAt(scheme, tail, IndexOf(tail, "?"))

UrlOf(scheme, hostname, port, pq) ==
    [ok |-> TRUE, protocol |-> scheme \o ":", hostname |-> hostname,
     port |-> IF port = DefaultPort(scheme) THEN "" ELSE port,
     pathname |-> pq.pathname, search |-> pq.search]

\* auth is host[:port], c the index of its ":".
HostPortAt(scheme, auth, c, tail) ==
    UrlOf(scheme,
          ToLowerCase(IF c = 0 THEN auth ELSE SubSeq(auth, 1, c - 1)),
          IF c = 0 THEN "" ELSE SubSeq(auth, c + 1, Len(auth)),
          PathAndQuery(scheme, tail))

HostPort(scheme, auth, tail) == HostPortAt(scheme, auth, IndexOf(auth, ":"), tail)

\* e is the index at which the authority of afterSlashes ends.
AuthorityAt(scheme, afterSlashes, e) ==
    HostPort(scheme, SubSeq(afterSlashes, 1, e - 1), SubSeq(afterSlashes, e, Len(afterSlashes)))

WithAuthority(scheme, afterSlashes) ==
    AuthorityAt(scheme, afterSlashes, FirstOf(afterSlashes, "/?"))

\* An http or https URL needs a host.
RequireHost(u) == IF u.hostname = "" THEN InvalidURL ELSE u

ParseSchemed(scheme, rest) ==
    IF DefaultPort(scheme) # "" THEN RequireHost(WithAuthority(scheme, SkipSlashes(rest)))
    ELSE IF StartsWith(rest, "//") THEN WithAuthority(scheme, SubSeq(rest, 3, Len(rest)))
    ELSE [ok |-> TRUE, protocol |-> scheme \o ":", hostname |-> "", port |-> "",
          pathname |-> rest, search |-> ""]

\* i is the index of the first ":" of s.
ParseAt(s, i) ==
    IF i = 0 \/ ~IsSchemeString(SubSeq(s, 1, i - 1)) THEN InvalidURL
    ELSE ParseSchemed(ToLowerCase(SubSeq(s, 1, i - 1)), SubSeq(s, i + 1, Len(s)))

\* new URL(s): InvalidURL stands for the TypeError the constructor throws.
ParseURL(s) == ParseAt(s, IndexOf(s, ":"))

\* url.host
UrlHost(u) == IF u.port = "" THEN u.hostname ELSE u.hostname \o ":" \o u.port

\* url.toString()
UrlToString(u) ==
    IF DefaultPort(SubSeq(u.protocol, 1, Len(u.protocol) - 1)) # "" \/ u.hostname # ""
    THEN u.protocol \o "//" \o UrlHost(u) \o u.pathname \o u.search
    ELSE u.protocol \o u.pathname \o u.search

\* url.protocol = p (between http and https): the port is dropped when it is
\* the new scheme's default.
UrlSetProtocol(u, p) ==
    [u EXCEPT !.protocol = p,
              !.port = IF u.port = DefaultPort(SubSeq(p, 1, Len(p) - 1)) THEN "" ELSE u.port]

-----------------------------------------------------------------------------
(* worker-cdn.js: origin authorization.                                    *)

defaultAllowed == <<>>

\* env.ALLOWED_ORIGINS.split(',').map(d => d.trim()).filter(d => d)
RECURSIVE TrimAll(_)
TrimAll(q) == IF q = <<>> THEN <<>> ELSE <<Trim(Head(q))>> \o TrimAll(Tail(q))

AllowedDomains(e) ==
    IF Truthy(e.ALLOWED_ORIGINS)
    THEN SeqFilterNonEmpty(TrimAll(Split(e.ALLOWED_ORIGINS[1], ",")))
    ELSE defaultAllowed

\* new RegExp(`(^|\\.)${escapedDomain}$`).test(hostname), for a domain made of
\* letters, digits, hyphens and (escaped) dots: the pattern is then the
\* literal domain, anchored at the end and preceded by the start or a dot.
PatternTest(domain, hostname) ==
    /\ EndsWith(hostname, domain)
    /\ \/ Len(hostname) = Len(domain)
       \/ CharAt(hostname, Len(hostname) - Len(domain)) = "."

\* allowedDomains.some(pattern => pattern.test(hostname))
SomePatternTests(allowedDomains, hostname) ==
    \E i \in 1..Len(allowedDomains) : PatternTest(allowedDomains[i], hostname)

\* The try block of isOriginAllowed, url being new URL(origin).
HostnameAllowed(url, allowedDomains) ==
    url.ok /\ SomePatternTests(allowedDomains, url.hostname)

isOriginAllowed(origin, allowedDomains) ==
    IF ~Truthy(origin) THEN FALSE
    ELSE HostnameAllowed(ParseURL(origin[1]), allowedDomains)

isSafeNoCorsRequest(method, origin) ==
    /\ origin = None \/ origin = Some("null")
    /\ method \in {"GET", "HEAD", "OPTIONS"}

\* pathname.toLowerCase().match(/\.[^.]+$/)?.[0]: the last dot and what
\* follows it, when something follows it; None when there is no match.
ExtensionAt(p, i) == IF i = 0 \/ i = Len(p) THEN None ELSE Some(SubSeq(p, i, Len(p)))

ExtensionOfLower(p) == ExtensionAt(p, LastIndexOf(p, "."))

Extension(pathname) == ExtensionOfLower(ToLowerCase(pathname))

IsFontExtension(ext) == ext # None /\ ext[1] \in {".woff", ".woff2", ".ttf", ".otf", ".eot"}

isFontRequest(pathname) == IsFontExtension(Extension(pathname))

PURGE_BLOCKING_HEADERS ==
    <<"x-forwarded-host", "x-host", "x-forwarded-scheme", "x-original-url",
      "x-rewrite-url", "forwarded", "origin">>

IsPurgeBlocking(lowerKey) ==
    \E i \in 1..Len(PURGE_BLOCKING_HEADERS) : PURGE_BLOCKING_HEADERS[i] = lowerKey

PreflightMaxAge == "86400"

\* The three headers every granting branch sets.
SetGrant(h, allowOrigin) ==
    HeadersSet(HeadersSet(HeadersSet(h,
        "Access-Control-Allow-Origin", allowOrigin),
        "Access-Control-Allow-Methods", "GET, HEAD, OPTIONS"),
        "Access-Control-Allow-Headers", "Content-Type, Range")

\* The CORS branch of the OPTIONS handler.
PreflightCors(method, pathname, origin, allowed) ==
    IF isFontRequest(pathname)
    THEN HeadersSet(SetGrant(EmptyHeaders, "*"), "Access-Control-Max-Age", PreflightMaxAge)
    ELSE IF Truthy(origin) /\ isOriginAllowed(origin, allowed)
    THEN HeadersSet(SetGrant(EmptyHeaders, origin[1]), "Access-Control-Max-Age", PreflightMaxAge)
    ELSE IF isSafeNoCorsRequest(method, origin)
    THEN HeadersSet(SetGrant(EmptyHeaders, "*"), "Access-Control-Max-Age", PreflightMaxAge)
    ELSE EmptyHeaders

\* A final-response branch that tries the allowed origin before the font path.
FinalCorsOriginFirst(h, method, pathname, origin, allowed) ==
    IF Truthy(origin) /\ isOriginAllowed(origin, allowed) THEN SetGrant(h, origin[1])
    ELSE IF isFontRequest(pathname) THEN SetGrant(h, "*")
    ELSE IF isSafeNoCorsRequest(method, origin) THEN SetGrant(h, "*")
    ELSE h

\* The CORS branch of the proxy pipeline, applied to the headers copied from
\* the storage response.
FinalCors(h, method, pathname, origin, allowed) ==
    IF isFontRequest(pathname) THEN SetGrant(h, "*")
    ELSE IF Truthy(origin) /\ isOriginAllowed(origin, allowed) THEN SetGrant(h, origin[1])
    ELSE IF isSafeNoCorsRequest(method, origin) THEN SetGrant(h, "*")
    ELSE h

-----------------------------------------------------------------------------
(* worker-cdn.js: MIME table.                                              *)

MIME_TYPES(ext) ==
    CASE ext = ".mp4" -> Some("video/mp4")
      [] ext = ".webm" -> Some("video/webm")
      [] ext = ".ogg" -> Some("video/ogg")
      [] ext = ".avi" -> Some("video/x-msvideo")
      [] ext = ".mov" -> Some("video/quicktime")
      [] ext = ".mkv" -> Some("video/x-matroska")
      [] ext = ".m4v" -> Some("video/x-m4v")
      [] ext = ".flv" -> Some("video/x-flv")
      [] ext = ".wmv" -> Some("video/x-ms-wmv")
      [] ext = ".mpg" -> Some("video/mpeg")
      [] ext = ".mpeg" -> Some("video/mpeg")
      [] ext = ".3gp" -> Some("video/3gpp")
      [] ext = ".mpd" -> Some("application/dash+xml")
      [] ext = ".mp3" -> Some("audio/mpeg")
      [] ext = ".wav" -> Some("audio/wav")
      [] ext = ".m4a" -> Some("audio/mp4")
      [] ext = ".aac" -> Some("audio/aac")
      [] ext = ".flac" -> Some("audio/flac")
      [] ext = ".opus" -> Some("audio/opus")
      [] ext = ".weba" -> Some("audio/webm")
      [] ext = ".oga" -> Some("audio/ogg")
      [] ext = ".jpg" -> Some("image/jpeg")
      [] ext = ".jpeg" -> Some("image/jpeg")
      [] ext = ".png" -> Some("image/png")
      [] ext = ".gif" -> Some("image/gif")
      [] ext = ".webp" -> Some("image/webp")
      [] ext = ".svg" -> Some("image/svg+xml")
      [] ext = ".ico" -> Some("image/x-icon")
      [] ext = ".bmp" -> Some("image/bmp")
      [] ext = ".tiff" -> Some("image/tiff")
      [] ext = ".tif" -> Some("image/tiff")
      [] ext = ".avif" -> Some("image/avif")
      [] ext = ".html" -> Some("text/html")
      [] ext = ".htm" -> Some("text/html")
      [] ext = ".css" -> Some("text/css")
      [] ext = ".js" -> Some("application/javascript")
      [] ext = ".mjs" -> Some("application/javascript")
      [] ext = ".json" -> Some("application/json")
      [] ext = ".xml" -> Some("application/xml")
      [] ext = ".txt" -> Some("text/plain")
      [] ext = ".woff" -> Some("font/woff")
      [] ext = ".woff2" -> Some("font/woff2")
      [] ext = ".ttf" -> Some("font/ttf")
      [] ext = ".otf" -> Some("font/otf")
      [] ext = ".eot" -> Some("application/vnd.ms-fontobject")
      [] ext = ".pdf" -> Some("application/pdf")
      [] ext = ".doc" -> Some("application/msword")
      [] ext = ".docx" -> Some("application/vnd.openxmlformats-officedocument.wordprocessingml.document")
      [] ext = ".xls" -> Some("application/vnd.ms-excel")
      [] ext = ".xlsx" -> Some("application/vnd.openxmlformats-officedocument.spreadsheetml.sheet")
      [] ext = ".ppt" -> Some("application/vnd.ms-powerpoint")
      [] ext = ".pptx" -> Some("application/vnd.openxmlformats-officedocument.presentationml.presentation")
      [] ext = ".zip" -> Some("application/zip")
      [] ext = ".rar" -> Some("application/vnd.rar")
      [] ext = ".tar" -> Some("application/x-tar")
      [] ext = ".gz" -> Some("application/gzip")
      [] ext = ".7z" -> Some("application/x-7z-compressed")
      [] ext = ".wasm" -> Some("application/wasm")
      [] ext = ".csv" -> Some("text/csv")
      [] ext = ".md" -> Some("text/markdown")
      [] ext = ".yaml" -> Some("text/yaml")
      [] ext = ".yml" -> Some("text/yaml")
      [] OTHER -> None

MimeOf(ext) == IF ext = None THEN None ELSE MIME_TYPES(ext[1])

getMimeType(pathname) == MimeOf(Extension(pathname))

-----------------------------------------------------------------------------
(* JSON values, as JSON.parse yields them and JSON.stringify writes them.  *)
(* An object is the sequence of its <<key, value>> entries in insertion    *)
(* order, with no key twice.                                               *)

JUndefined == [t |-> "undefined"]
JNull      == [t |-> "null"]
JBool(b)   == [t |-> "bool", b |-> b]
JNum(n)    == [t |-> "num", n |-> n]
JStr(x)    == [t |-> "str", s |-> x]
JArr(a)    == [t |-> "arr", a |-> a]
JObj(o)    == [t |-> "obj", o |-> o]

ObjHas(o, k) == \E i \in 1..Len(o) : o[i][1] = k

\* obj[k] = v: an existing key keeps its place.
ObjSet(o, k, v) ==
    IF ObjHas(o, k)
    THEN [i \in 1..Len(o) |-> IF o[i][1] = k THEN <<k, v>> ELSE o[i]]
    ELSE Append(o, <<k, v>>)

\* value[k] for a JSON value other than null (reading a property of null
\* throws and is handled by the caller).
GetProp(d, k) ==
    IF d.t = "obj" /\ ObjHas(d.o, k)
    THEN d.o[CHOOSE i \in 1..Len(d.o) : d.o[i][1] = k][2]
    ELSE JUndefined

\* JavaScript truthiness.
JsTruthy(d) ==
    CASE d.t = "undefined" -> FALSE
      [] d.t = "null" -> FALSE
      [] d.t = "bool" -> d.b
      [] d.t = "num" -> d.n # 0
      [] d.t = "str" -> d.s # ""
      [] OTHER -> TRUE

\* a !== b against a string b.
StrictNotEqualsString(d, str) == ~(d.t = "str" /\ d.s = str)

Digit(n) == CharAt("0123456789", n + 1)

RECURSIVE NatToString(_)
NatToString(n) == IF n < 10 THEN Digit(n) ELSE NatToString(n \div 10) \o Digit(n % 10)

\* String(value), as the URL constructor applies it to its argument.
RECURSIVE JsToString(_)
RECURSIVE JoinElements(_)
JoinElements(a) ==
    IF a = <<>> THEN ""
    ELSE (IF Head(a).t \in {"null", "undefined"} THEN "" ELSE JsToString(Head(a)))
         \o (IF Len(a) > 1 THEN "," \o JoinElements(Tail(a)) ELSE "")
JsToString(d) ==
    CASE d.t = "undefined" -> "undefined"
      [] d.t = "null" -> "null"
      [] d.t = "bool" -> IF d.b THEN "true" ELSE "false"
      [] d.t = "num" -> NatToString(d.n)
      [] d.t = "str" -> d.s
      [] d.t = "arr" -> JoinElements(d.a)
      [] OTHER -> "[object Object]"

\* JSON.stringify(value)
RECURSIVE JsonStringify(_)
RECURSIVE StringifyElements(_)
RECURSIVE StringifyEntries(_)
StringifyElements(a) ==
    IF a = <<>> THEN ""
    ELSE JsonStringify(Head(a)) \o (IF Len(a) > 1 THEN "," \o StringifyElements(Tail(a)) ELSE "")
StringifyEntries(o) ==
    IF o = <<>> THEN ""
    ELSE "\"" \o Head(o)[1] \o "\":" \o JsonStringify(Head(o)[2])
         \o (IF Len(o) > 1 THEN "," \o StringifyEntries(Tail(o)) ELSE "")
JsonStringify(d) ==
    CASE d.t = "null" -> "null"
      [] d.t = "undefined" -> "null"
      [] d.t = "bool" -> IF d.b THEN "true" ELSE "false"
      [] d.t = "num" -> NatToString(d.n)
      [] d.t = "str" -> "\"" \o d.s \o "\""
      [] d.t = "arr" -> "[" \o StringifyElements(d.a) \o "]"
      [] OTHER -> "{" \o StringifyEntries(d.o) \o "}"

(* A message body is raw text, or a JSON document standing for its own     *)
(* serialization (JSON.parse of that text yields the document back).       *)
NoBody       == [kind |-> "none"]
RawBody(x)   == [kind |-> "raw", text |-> x]
JsonBody(d)  == [kind |-> "json", doc |-> d]

\* await req.text()
BodyText(b) ==
    CASE b.kind = "none" -> ""
      [] b.kind = "raw" -> b.text
      [] OTHER -> JsonStringify(b.doc)

\* JSON.parse(text): None stands for the SyntaxError it throws.
JsonParse(b) == IF b.kind = "json" THEN Some(b.doc) ELSE None

-----------------------------------------------------------------------------
(* worker-cdn.js: AWS Signature Version 4.  SHA-256 and HMAC-SHA256 are    *)
(* symbolic: injective on their arguments.                                 *)

\* `${v}` and 'text' + v: a field the configuration lacks reads as undefined.
Text(v) == IF v = None THEN "undefined" ELSE v[1]

\* new TextEncoder().encode(v): undefined takes the default, the empty string.
Encoded(v) == IF v = None THEN "" ELSE v[1]

Sha256Hex(message) == "sha256(" \o message \o ")"

HmacSha256(key, message) == "hmac(" \o key \o "|" \o message \o ")"

getSignatureKey(key, dateStamp, regionName, serviceName) ==
    LET kDate    == HmacSha256("AWS4" \o Text(key), dateStamp)
        kRegion  == HmacSha256(kDate, Encoded(regionName))
        kService == HmacSha256(kRegion, serviceName)
    IN  HmacSha256(kService, "aws4_request")

\* iso.replace(/[:-]|\.\d{3}/g, '')
RECURSIVE AmzDateOf(_)
AmzDateOf(iso) ==
    IF iso = "" THEN ""
    ELSE IF CharAt(iso, 1) \in {":", "-"} THEN AmzDateOf(SubSeq(iso, 2, Len(iso)))
    ELSE IF /\ CharAt(iso, 1) = "."
            /\ Len(iso) >= 4
            /\ \A i \in 2..4 : IndexOf("0123456789", CharAt(iso, i)) # 0
         THEN AmzDateOf(SubSeq(iso, 5, Len(iso)))
    ELSE CharAt(iso, 1) \o AmzDateOf(SubSeq(iso, 2, Len(iso)))

CredentialScope(dateStamp, region, service) ==
    dateStamp \o "/" \o region \o "/" \o service \o "/aws4_request"

CanonicalRequest(method, urlObj, payloadHash, amzDate) ==
    method \o "\n" \o urlObj.pathname \o "\n"
    \o SubSeq(urlObj.search, 2, Len(urlObj.search)) \o "\n"
    \o "host:" \o urlObj.hostname \o "\nx-amz-content-sha256:" \o payloadHash
    \o "\nx-amz-date:" \o amzDate \o "\n"
    \o "\n" \o "host;x-amz-content-sha256;x-amz-date" \o "\n" \o payloadHash

StringToSign(amzDate, credentialScope, canonicalRequest) ==
    "AWS4-HMAC-SHA256" \o "\n" \o amzDate \o "\n" \o credentialScope \o "\n"
    \o Sha256Hex(canonicalRequest)

AuthorizationHeader(accessKeyId, credentialScope, signature) ==
    "AWS4-HMAC-SHA256" \o " Credential=" \o accessKeyId \o "/" \o credentialScope
    \o ", SignedHeaders=" \o "host;x-amz-content-sha256;x-amz-date"
    \o ", Signature=" \o signature

\* The signature and the returned headers, for the credential scope of dateStamp.
SignScoped(canonicalRequest, amzDate, dateStamp, credentialScope, payloadHash, config) ==
    << <<"x-amz-date", amzDate>>,
       <<"x-amz-content-sha256", payloadHash>>,
       <<"Authorization",
         AuthorizationHeader(Text(config.accessKeyId), credentialScope,
            HmacSha256(getSignatureKey(config.secretAccessKey, dateStamp, config.region, "s3"),
                       StringToSign(amzDate, credentialScope, canonicalRequest)))>> >>

SignDated(method, urlObj, payloadHash, config, amzDate, dateStamp) ==
    SignScoped(CanonicalRequest(method, urlObj, payloadHash, amzDate), amzDate, dateStamp,
               CredentialScope(dateStamp, Text(config.region), "s3"), payloadHash, config)

\* amzDate is the one timestamp of the call.
SignAt(method, urlObj, payloadHash, config, amzDate) ==
    SignDated(method, urlObj, payloadHash, config, amzDate, SubSeq(amzDate, 1, 8))

\* now is new Date().toISOString() at the call.
signAwsRequest(method, url, headers, payload, config, now) ==
    SignAt(method, ParseURL(url), Sha256Hex(payload), config, AmzDateOf(now))

-----------------------------------------------------------------------------
(* Responses, and what a handler does next: answer, or wait for a fetch.   *)

Response(status, headers, body) == [status |-> status, headers |-> headers, body |-> body]

JsonHeaders == HeadersSet(EmptyHeaders, "Content-Type", "application/json")

JsonResponse(status, entries) == Response(status, JsonHeaders, JsonBody(JObj(entries)))

ErrorResponse(status, message) == JsonResponse(status, <<<<"error", JStr(message)>>>>)

Answer(r)        == [kind |-> "response", resp |-> r]
AwaitStorage(u)  == [kind |-> "storage", call |-> u]
AwaitPurgeApi(c) == [kind |-> "purgeApi", call |-> c]

\* The catch block of handlePurgeRequest.
PurgeInternalError(message) ==
    JsonResponse(500, <<<<"error", JStr("Internal server error")>>, <<"details", JStr(message)>>>>)

\* { ...value }: the own enumerable properties of a JSON value.
SpreadEntries(d) ==
    CASE d.t = "obj" -> d.o
      [] d.t = "arr" -> [i \in 1..Len(d.a) |-> <<NatToString(i - 1), d.a[i]>>]
      [] d.t = "str" -> [i \in 1..Len(d.s) |-> <<NatToString(i - 1), JStr(CharAt(d.s, i))>>]
      [] OTHER -> <<>>

RECURSIVE ObjAssign(_, _)
ObjAssign(o, entries) ==
    IF entries = <<>> THEN o
    ELSE ObjAssign(ObjSet(o, Head(entries)[1], Head(entries)[2]), Tail(entries))

-----------------------------------------------------------------------------
(* worker-cdn.js: the purge endpoint.                                      *)

PurgeApiUrl(zone) == "https://api.cloudflare.com/client/v4/zones/" \o zone \o "/purge_cache"

\* A purge payload whose headers hold the origin alone.
PurgeApiCallOriginOnly(e, url, requestHeaders, origin) ==
    [url     |-> PurgeApiUrl(e.CF_ZONE_ID[1]),
     method  |-> "POST",
     headers |-> HeadersSet(JsonHeaders, "Authorization", "Bearer " \o e.CF_API_TOKEN[1]),
     body    |-> JsonBody(JObj(<< <<"files",
                    JArr(<< JObj(<< <<"url", url>>,
                                    <<"headers", JObj(<<<<"origin", origin>>>>)>> >>) >>)>> >>))]

\* The purge payload and the fetch of the purge API; origin is the value of
\* headers.origin before the spread.
PurgeApiCallWith(e, url, requestHeaders, origin) ==
    [url     |-> PurgeApiUrl(e.CF_ZONE_ID[1]),
     method  |-> "POST",
     headers |-> HeadersSet(JsonHeaders, "Authorization", "Bearer " \o e.CF_API_TOKEN[1]),
     body    |-> JsonBody(JObj(<< <<"files",
                    JArr(<< JObj(<< <<"url", url>>,
                                    <<"headers",
                                      JObj(ObjAssign(<<<<"origin", origin>>>>,
                                                     SpreadEntries(requestHeaders)))>> >>) >>)>> >>))]

\* requestHeaders.origin || `${urlObj.protocol}//${urlObj.host}`
PurgeOrigin(given, urlObj) ==
    IF JsTruthy(given) THEN given ELSE JStr(urlObj.protocol \o "//" \o UrlHost(urlObj))

PurgeApiCall(e, url, requestHeaders, urlObj) ==
    PurgeApiCallWith(e, url, requestHeaders,
                     PurgeOrigin(GetProp(requestHeaders, "origin"), urlObj))

\* From the URL format check on; urlObj is new URL(url).
PurgeWithUrl(e, url, requestHeaders, urlObj) ==
    IF ~urlObj.ok
    THEN Answer(ErrorResponse(400, "Invalid URL format"))
    \* requestHeaders.origin throws on null
    ELSE IF requestHeaders.t = "null"
    THEN Answer(PurgeInternalError("Cannot read properties of null (reading 'origin')"))
    ELSE AwaitPurgeApi(PurgeApiCall(e, url, requestHeaders, urlObj))

\* From the environment checks on, with the destructured body.
PurgeChecks(e, url, requestHeaders, token) ==
    IF ~Truthy(e.CF_ZONE_ID)
    THEN Answer(ErrorResponse(500, "Missing CF_ZONE_ID environment variable"))
    ELSE IF ~Truthy(e.CF_API_TOKEN)
    THEN Answer(ErrorResponse(500, "Missing CF_API_TOKEN environment variable"))
    ELSE IF Truthy(e.CF_PURGE_TOKEN) /\ StrictNotEqualsString(token, e.CF_PURGE_TOKEN[1])
    THEN Answer(ErrorResponse(401, "Unauthorized"))
    ELSE IF ~JsTruthy(url)
    THEN Answer(ErrorResponse(400, "Missing 'url' parameter"))
    ELSE PurgeWithUrl(e, url, requestHeaders, ParseURL(JsToString(url)))

\* headers: requestHeaders = {}
DefaultEmpty(d) == IF d.t = "undefined" THEN JObj(<<>>) ELSE d

\* const { url, headers: requestHeaders = {}, token } = body, which throws
\* when body is null.
PurgeDestructure(e, body) ==
    IF body.t = "null"
    THEN Answer(PurgeInternalError("Cannot destructure property 'url' of 'body' as it is null."))
    ELSE PurgeChecks(e, GetProp(body, "url"), DefaultEmpty(GetProp(body, "headers")),
                     GetProp(body, "token"))

\* The body parse; text is the trimmed body text.
PurgeParse(r, e, text, parsed) ==
    IF text = ""
    THEN Answer(JsonResponse(400,
            << <<"error", JStr("Empty request body")>>,
               <<"message", JStr("Please send JSON data in the request body")>>,
               <<"example", JStr("{\"url\":\"https://example.com/file.mp4\"}")>> >>))
    ELSE IF parsed = None
    THEN Answer(JsonResponse(400,
            << <<"error", JStr("Invalid JSON in request body")>>,
               <<"details", JStr("SyntaxError")>>,
               <<"receivedText", JStr(SubSeq(text, 1, IF Len(text) < 200 THEN Len(text) ELSE 200))>>,
               <<"hint", JStr("Ensure valid JSON format: {\"url\":\"https://...\"}")>> >>))
    ELSE PurgeDestructure(e, parsed[1])

\* req.headers.get("content-type") || ""
ContentTypeOf(r) == OrElse(HeadersGet(r.headers, "content-type"), "")

\* handlePurgeRequest up to its fetch of the purge API.
handlePurgeRequest(r, e) ==
    IF r.method # "POST"
    THEN Answer(ErrorResponse(405, "Method not allowed. Use POST."))
    ELSE IF ~Includes(ContentTypeOf(r), "application/json")
    THEN Answer(ErrorResponse(400, "Invalid Content-Type. Use application/json."))
    ELSE PurgeParse(r, e, Trim(BodyText(r.body)), JsonParse(r.body))

\* handlePurgeRequest after the purge API answered: purgeResp.json(), then the
\* relay.  url is the url field of the request body.
PurgeRelayParsed(url, status, parsed) ==
    IF parsed = None THEN PurgeInternalError("Unexpected token in JSON")
    ELSE IF ~(status >= 200 /\ status <= 299)
    THEN Response(status, JsonHeaders, JsonBody(parsed[1]))
    ELSE JsonResponse(200,
            << <<"success", JBool(TRUE)>>,
               <<"message", JStr("Cache purge initiated successfully")>>,
               <<"url", url>>,
               <<"result", parsed[1]>> >>)

PurgeRelay(url, purgeResp) == PurgeRelayParsed(url, purgeResp.status, JsonParse(purgeResp.body))

-----------------------------------------------------------------------------
(* worker-cdn.js: the proxy pipeline.                                      *)

StorageHost == Text(s3Config.bucket) \o "." \o Text(s3Config.endpoint)

\* A copy loop that skips nothing.
CopyEveryHeader(h) == h

\* The copy loop over req.headers.
CopySafeHeaders(h) ==
    [n \in {k \in DOMAIN h : ~IsPurgeBlocking(ToLowerCase(k))} |-> h[n]]

\* The headers of h, and those of extra that h does not have.
KeepFirst(h, extra) ==
    [n \in (DOMAIN h) \cup (DOMAIN extra) |-> IF n \in DOMAIN h THEN h[n] ELSE extra[n]]

\* A signed request in which a header the client sent wins over the signer's
\* header of the same name.
SignedUpstreamClientWins(r, s3Url, newHeaders, payload, now) ==
    [url     |-> s3Url,
     method  |-> r.method,
     headers |-> KeepFirst(newHeaders,
                    HeadersFrom(EmptyHeaders,
                        signAwsRequest(r.method, s3Url, newHeaders, payload, s3Config, now))),
     body    |-> IF r.method \in {"GET", "HEAD"} THEN NoBody ELSE RawBody(payload)]

\* The signed request; s3Url, newHeaders and payload as in steps (2) to (3.5).
SignedUpstream(r, s3Url, newHeaders, payload, now) ==
    [url     |-> s3Url,
     method  |-> r.method,
     headers |-> HeadersFrom(newHeaders,
                    signAwsRequest(r.method, s3Url, newHeaders, payload, s3Config, now)),
     body    |-> IF r.method \in {"GET", "HEAD"} THEN NoBody ELSE RawBody(payload)]

\* Steps (2), (3) and (3.5): the request sent to the storage origin.
UpstreamRequest(r, url, now) ==
    SignedUpstream(r,
        "https://" \o StorageHost \o url.pathname \o url.search,
        HeadersSet(CopySafeHeaders(r.headers), "Host", StorageHost),
        IF r.method \in {"GET", "HEAD"} THEN "" ELSE BodyText(r.body),
        now)

\* A policy that treats 404 alone as an error response.
CacheControlNotFoundOnly(status) ==
    IF status = 404
    THEN "public, max-age=300, s-maxage=31536000, immutable"
    ELSE "public, max-age=60, s-maxage=31536000, must-revalidate"

\* Lines 360-367.
CacheControlFor(status) ==
    IF status = 404 \/ status = 403
    THEN "public, max-age=300, s-maxage=31536000, immutable"
    ELSE "public, max-age=60, s-maxage=31536000, must-revalidate"

RECURSIVE DeleteAll(_, _)
DeleteAll(h, names) ==
    IF names = <<>> THEN h ELSE DeleteAll(HeadersDelete(h, Head(names)), Tail(names))

\* if (mimeType) headers.set("Content-Type", mimeType)
WithMimeType(h, mimeType) ==
    IF Truthy(mimeType) THEN HeadersSet(h, "Content-Type", mimeType[1]) ELSE h

\* Steps (4) and (5): the response built from the storage response.
ProxyResponse(r, url, origin, allowed, originResp) ==
    Response(originResp.status,
        DeleteAll(
            DeleteAll(
                HeadersSet(
                    FinalCors(
                        HeadersSet(WithMimeType(originResp.headers, getMimeType(url.pathname)),
                                   "Accept-Ranges", "bytes"),
                        r.method, url.pathname, origin, allowed),
                    "Cache-Control", CacheControlFor(originResp.status)),
                PURGE_BLOCKING_HEADERS),
            <<"Vary", "Pragma", "Expires">>),
        originResp.body)

\* A routing that answers preflights before the HTTPS redirect.
RoutePreflightFirst(r, e, now, url, origin, allowed) ==
    IF r.method = "OPTIONS"
    THEN Answer(Response(204, PreflightCors(r.method, url.pathname, origin, allowed), NoBody))
    ELSE IF url.protocol = "http:" /\ ~Truthy(e.DISABLE_HTTPS_REDIRECT)
    THEN Answer(Response(301,
            HeadersSet(EmptyHeaders, "Location", UrlToString(UrlSetProtocol(url, "https:"))),
            NoBody))
    ELSE IF r.method = "POST" /\ url.pathname = "/.purge"
    THEN handlePurgeRequest(r, e)
    ELSE AwaitStorage(UpstreamRequest(r, url, now))

\* The worker's fetch handler after its first lines: url is new URL(req.url),
\* origin the Origin header, allowed the parsed ALLOWED_ORIGINS.
Route(r, e, now, url, origin, allowed) ==
    IF url.protocol = "http:" /\ ~Truthy(e.DISABLE_HTTPS_REDIRECT)
    THEN Answer(Response(301,
            HeadersSet(EmptyHeaders, "Location", UrlToString(UrlSetProtocol(url, "https:"))),
            NoBody))
    ELSE IF r.method = "OPTIONS"
    THEN Answer(Response(204, PreflightCors(r.method, url.pathname, origin, allowed), NoBody))
    ELSE IF r.method = "POST" /\ url.pathname = "/.purge"
    THEN handlePurgeRequest(r, e)
    ELSE AwaitStorage(UpstreamRequest(r, url, now))

\* The worker's fetch handler up to its first network call.
fetch(r, e, now) ==
    Route(r, e, now, ParseURL(r.url), HeadersGet(r.headers, "Origin"), AllowedDomains(e))

-----------------------------------------------------------------------------
(* server.js: the Node adapter.  A Node request is its method, its request *)
(* target (req.url), its header lines as <<name, value>> pairs and its     *)
(* body.                                                                   *)

\* req.headers[name]: Node keys the header lines by lower-cased name.
NodeHeader(n, name) ==
    IF \E i \in 1..Len(n.headers) : ToLowerCase(n.headers[i][1]) = name
    THEN Some(n.headers[CHOOSE i \in 1..Len(n.headers) :
                            ToLowerCase(n.headers[i][1]) = name][2])
    ELSE None

RECURSIVE TruthyPairs(_)
TruthyPairs(pairs) ==
    IF pairs = <<>> THEN <<>>
    ELSE IF Head(pairs)[2] = "" THEN TruthyPairs(Tail(pairs))
         ELSE <<Head(pairs)>> \o TruthyPairs(Tail(pairs))

\* new Request(url, requestInit): None stands for the TypeError thrown on an
\* invalid URL.
NewRequest(n, url) ==
    IF ~url.ok THEN None
    ELSE Some([method  |-> n.method,
               url     |-> UrlToString(url),
               headers |-> HeadersFrom(EmptyHeaders, TruthyPairs(n.headers)),
               body    |-> IF n.method \notin {"GET", "HEAD"} /\ BodyText(n.body) # ""
                           THEN n.body ELSE NoBody])

nodeRequestToWebRequest(n) ==
    NewRequest(n, ParseURL(OrElse(NodeHeader(n, "x-forwarded-proto"), "http") \o "://"
                           \o OrElse(NodeHeader(n, "x-forwarded-host"),
                                     OrElse(NodeHeader(n, "host"), "localhost"))
                           \o n.url))

\* The catch block of handleRequest.
ServerError(message) ==
    JsonResponse(500, <<<<"error", JStr("Internal server error")>>, <<"details", JStr(message)>>>>)

\* A ServerResponse nothing has been written to; wire is the status line the
\* client has received.
FreshRes ==
    [statusCode |-> 200, headers |-> EmptyHeaders, headersSent |-> FALSE,
     wire |-> None, finished |-> FALSE, body |-> NoBody]

\* res.statusCode = webResponse.status and the setHeader loop.
SetHead(r, webResponse) ==
    [r EXCEPT !.statusCode = webResponse.status,
              !.headers = [n \in (DOMAIN r.headers) \cup (DOMAIN webResponse.headers) |->
                              IF n \in DOMAIN webResponse.headers
                              THEN webResponse.headers[n] ELSE r.headers[n]]]

\* The first write or end sends the status line and the headers.
FlushHead(r) ==
    IF r.headersSent THEN r ELSE [r EXCEPT !.headersSent = TRUE, !.wire = Some(r.statusCode)]

\* res.write(value)
ResWrite(r) == FlushHead(r)

\* res.end(), body being everything the client was sent.
ResEnd(r, body) == [FlushHead(r) EXCEPT !.finished = TRUE, !.body = body]

\* webResponseToNodeResponse when every read of the body succeeds.
webResponseToNodeResponse(webResponse, r) == ResEnd(SetHead(r, webResponse), webResponse.body)

\* The catch block of handleRequest run on r: res.statusCode = 500, then
\* setHeader, which throws once the headers are sent, then end.
CatchBlock(r, message) ==
    IF r.headersSent
    THEN [r EXCEPT !.statusCode = 500]
    ELSE ResEnd([r EXCEPT !.statusCode = 500,
                          !.headers = HeadersSet(r.headers, "Content-Type", "application/json")],
                ServerError(message).body)

-----------------------------------------------------------------------------
(* Inputs.                                                                 *)

MaxClientHeaders == 1
MaxOriginHeaders == 1

PurgeSecret == "s3cret"

BaseEnv ==
    [ALLOWED_ORIGINS        |-> Some("example.com, cdn.example"),
     DISABLE_HTTPS_REDIRECT |-> None,
     CF_ZONE_ID             |-> Some("zone1"),
     CF_API_TOKEN           |-> Some("apitoken"),
     CF_PURGE_TOKEN         |-> Some(PurgeSecret)]

\* secret/aws-s3.json with its five fields.
AwsS3Json ==
    [bucket |-> Some("assets"), endpoint |-> Some("s3.example.com"),
     region |-> Some("us-east-1"), accessKeyId |-> Some("AKIDEXAMPLE"),
     secretAccessKey |-> Some("wJalrXUtnFEMI")]

\* Every setting of the proxy pipeline with the purge endpoint configured, and
\* every setting of the purge endpoint.
Envs ==
    {[BaseEnv EXCEPT !.ALLOWED_ORIGINS = a, !.DISABLE_HTTPS_REDIRECT = d] :
        a \in {None, Some("example.com, cdn.example")}, d \in {None, Some("true")}}
    \cup
    {[BaseEnv EXCEPT !.CF_ZONE_ID = z, !.CF_API_TOKEN = k, !.CF_PURGE_TOKEN = t] :
        z \in {None, Some("zone1")}, k \in {None, Some("apitoken")},
        t \in {None, Some(PurgeSecret)}}

\* Header lines a client may add, in the letter case it chooses.
ClientHeaderLines ==
    {<<"X-Forwarded-Host", "internal.example:8080">>, <<"FORWARDED", "for=10.0.0.1">>,
     <<"Authorization", "Basic Zm9v">>, <<"X-Amz-Date", "19700101T000000Z">>,
     <<"X-AMZ-Content-SHA256", "UNSIGNED-PAYLOAD">>}

\* Header lines the storage origin may return.
OriginHeaderLines ==
    {<<"Origin", "https://leak.example">>, <<"X-Rewrite-URL", "/internal">>,
     <<"Vary", "Origin">>, <<"Access-Control-Allow-Origin", "*">>,
     <<"Cache-Control", "no-store">>, <<"Access-Control-Max-Age", "5">>}

\* The sequences listing each subset of lines of at most max elements, in one
\* fixed order per subset.
RECURSIVE SeqOfSet(_)
SeqOfSet(S) ==
    IF S = {} THEN <<>>
    ELSE LET x == CHOOSE y \in S : TRUE IN <<x>> \o SeqOfSet(S \ {x})

LineSeqs(lines, max) == {SeqOfSet(S) : S \in {T \in SUBSET lines : Cardinality(T) <= max}}

OptLine(name, o) == IF o = None THEN <<>> ELSE <<<<name, o[1]>>>>

Field(k, v) == IF v.t = "undefined" THEN <<>> ELSE <<<<k, v>>>>

\* Purge bodies as documents: null, a number, and objects over every url,
\* headers and token value below.
PurgeDocs ==
    {JNull, JNum(7)} \cup
    {JObj(Field("url", u) \o Field("headers", h) \o Field("token", t)) :
        u \in {JUndefined, JNull, JNum(0), JNum(123), JBool(TRUE), JStr(""),
               JStr("not a url"), JStr("https://cdn.example/a.js"),
               JStr("https://cdn.example:8443/b.css?x=1"),
               JArr(<<JStr("https://cdn.example/a.js")>>), JArr(<<>>), JObj(<<>>)},
        h \in {JUndefined, JNull, JObj(<<<<"origin", JStr("https://other.example")>>>>),
               JObj(<<<<"X-Extra", JStr("1")>>>>),
               JObj(<<<<"X-Extra", JStr("1")>>, <<"origin", JStr("")>>>>)},
        t \in {JUndefined, JStr(PurgeSecret), JStr("S3cret")}}

NodeRequest(method, target, lines, body) ==
    [method |-> method, url |-> target, headers |-> lines, body |-> body]

HostLine == <<<<"Host", "cdn.example">>>>

\* Every method, target, scheme and Origin value (absent, the literal "null",
\* an allowed subdomain, a foreign origin), POST /.purge aside.
PlainRequests ==
    {NodeRequest(mt[1], mt[2],
                 HostLine \o OptLine("X-Forwarded-Proto", p) \o OptLine("Origin", o),
                 IF mt[1] = "POST" THEN RawBody("payload") ELSE NoBody) :
        mt \in {y \in {"GET", "HEAD", "OPTIONS", "POST"}
                        \X {"/app.js?v=1", "/fonts/Inter.WOFF2", "/.purge"} :
                    y # <<"POST", "/.purge">>},
        p \in {None, Some("https")},
        o \in {None, Some("null"), Some("https://www.example.com"), Some("https://evil.test")}}

\* Requests carrying further header lines.
HeaderRequests ==
    {NodeRequest(m, "/app.js?v=1",
                 HostLine \o OptLine("X-Forwarded-Proto", p) \o x,
                 IF m = "POST" THEN RawBody("payload") ELSE NoBody) :
        m \in {"GET", "POST"}, p \in {None, Some("https")},
        x \in LineSeqs(ClientHeaderLines, MaxClientHeaders) \ {<<>>}}

\* POST /.purge with a JSON content type and every body; raw bodies are texts
\* that are not JSON.
PurgeRequests ==
    {NodeRequest("POST", "/.purge",
                 HostLine \o <<<<"X-Forwarded-Proto", "https">>,
                                <<"Content-Type", "application/json; charset=utf-8">>>>,
                 b) :
        b \in {RawBody(""), RawBody("  "), RawBody("{url:")} \cup {JsonBody(d) : d \in PurgeDocs}}

\* POST /.purge over http, from an allowed origin, with another content type
\* or none.
OtherPurgeRequests ==
    {NodeRequest("POST", "/.purge", HostLine \o p \o o \o c,
                 JsonBody(JObj(<<<<"url", JStr("https://cdn.example/a.js")>>,
                                 <<"token", JStr(PurgeSecret)>>>>))) :
        p \in {<<>>, <<<<"X-Forwarded-Proto", "https">>>>},
        o \in {<<>>, <<<<"Origin", "https://www.example.com">>>>},
        c \in {<<>>, <<<<"Content-Type", "text/plain">>>>,
               <<<<"Content-Type", "application/json">>>>}}

NodeRequests == PlainRequests \cup HeaderRequests \cup PurgeRequests \cup OtherPurgeRequests

\* new Date().toISOString() at the time of a call.
Instants == {"2026-11-04T10:15:30.123Z"}

StorageResponses ==
    {Response(st, EmptyHeaders, RawBody("object bytes")) : st \in {200, 206, 403, 404, 500}} \cup
    {Response(304, EmptyHeaders, NoBody),
     Response(404, HeadersSet(EmptyHeaders, "Cache-Control", "no-cache"), RawBody("NoSuchKey"))} \cup
    {Response(200, HeadersFrom(EmptyHeaders, x), RawBody("object bytes")) :
        x \in LineSeqs(OriginHeaderLines, MaxOriginHeaders)}

PurgeApiResponses ==
    {Response(200, JsonHeaders, JsonBody(JObj(<<<<"success", JBool(TRUE)>>>>))),
     Response(403, JsonHeaders, JsonBody(JObj(<<<<"success", JBool(FALSE)>>>>))),
     Response(502, EmptyHeaders, RawBody("<html>Bad Gateway</html>"))}

-----------------------------------------------------------------------------
(* The server: one request at a time through handleRequest.                *)

\* What new Date().toISOString() gives as the clock advances, across midnight.
Ticks == <<"2026-11-04T23:59:59.998Z", "2026-11-04T23:59:59.999Z", "2026-11-05T00:00:00.000Z">>

\* The invocations of signAwsRequest that may be in progress together.
Callers == {"a", "b"}

\* An invocation that has not begun: no locals yet.  began is the reading of
\* the clock when the invocation was entered.
NotCalled ==
    [at |-> "idle", method |-> "", url |-> "", payload |-> "", began |-> 0,
     amzDate |-> "", dateStamp |-> "", payloadHash |-> "", canonicalRequest |-> "",
     credentialScope |-> "", stringToSign |-> "", signingKey |-> "", out |-> <<>>]

\* No request is being handled.
Idle ==
    /\ clock = 1
    /\ calls = [c \in Callers |-> NotCalled]
    /\ pc = "idle"
    /\ node = None
    /\ req = None
    /\ upstream = None
    /\ purgeCall = None
    /\ resp = None
    /\ storageCalls = 0
    /\ purgeCalls = 0
    /\ storageResp = None
    /\ apiResp = None
    /\ res = None
    /\ error = None

Init == env \in Envs /\ s3Config = AwsS3Json /\ Idle

\* The worker's outcome: a response, written back at once (its body is in
\* memory), or a network call to wait for.
Continue(web, out) ==
    /\ req' = web
    /\ error' = None
    /\ CASE out.kind = "response" ->
              /\ resp' = Some(out.resp)
              /\ res' = Some(webResponseToNodeResponse(out.resp, FreshRes))
              /\ pc' = "done"
              /\ UNCHANGED <<upstream, purgeCall, storageCalls, purgeCalls>>
         [] out.kind = "storage" ->
              /\ upstream' = Some(out.call)
              /\ storageCalls' = storageCalls + 1
              /\ res' = Some(FreshRes)
              /\ pc' = "storage"
              /\ UNCHANGED <<purgeCall, purgeCalls, resp>>
         [] out.kind = "purgeApi" ->
              /\ purgeCall' = Some(out.call)
              /\ purgeCalls' = purgeCalls + 1
              /\ res' = Some(FreshRes)
              /\ pc' = "purgeApi"
              /\ UNCHANGED <<upstream, storageCalls, resp>>

\* web is the converted request, None when the conversion threw.
Dispatch(web, now) ==
    IF web = None
    THEN /\ req' = None
         /\ resp' = Some(ServerError("Invalid URL"))
         /\ res' = Some(CatchBlock(FreshRes, "Invalid URL"))
         /\ error' = Some("conversion")
         /\ pc' = "done"
         /\ UNCHANGED <<upstream, purgeCall, storageCalls, purgeCalls>>
    ELSE Continue(web, fetch(web[1], env, now))

\* handleRequest from the arrival of a request to the first network call of
\* the worker, or to the response when there is none.
HandleRequest(n, now) ==
    /\ pc = "idle"
    /\ node' = Some(n)
    /\ Dispatch(nodeRequestToWebRequest(n), now)
    /\ UNCHANGED <<env, s3Config, clock, calls, storageResp, apiResp>>

\* The worker's response to a proxied request reaches webResponseToNodeResponse:
\* status and headers are set on res, and the body, when there is one, is a
\* stream still to be read.
BeginWrite(webResponse) ==
    IF webResponse.body = NoBody
    THEN /\ res' = Some(webResponseToNodeResponse(webResponse, res[1]))
         /\ pc' = "done"
    ELSE /\ res' = Some(SetHead(res[1], webResponse))
         /\ pc' = "streaming"

\* The storage fetch resolves: steps (4) and (5), then the write-back begins.
StorageResponds(originResp) ==
    /\ pc = "storage"
    /\ resp' = Some(ProxyResponse(req[1], ParseURL(req[1].url),
                                  HeadersGet(req[1].headers, "Origin"),
                                  AllowedDomains(env), originResp))
    /\ storageResp' = Some(originResp)
    /\ BeginWrite(resp'[1])
    /\ UNCHANGED <<env, s3Config, clock, calls, node, req, upstream, purgeCall, storageCalls, purgeCalls, apiResp,
                   error>>

\* reader.read() gives a chunk of the storage body and res.write sends it.
StreamChunk ==
    /\ pc = "streaming"
    /\ res' = Some(ResWrite(res[1]))
    /\ UNCHANGED <<env, s3Config, clock, calls, pc, node, req, upstream, purgeCall, resp, storageCalls, purgeCalls,
                   storageResp, apiResp, error>>

\* reader.read() reports the end of the storage body; res.end().
StreamEnds ==
    /\ pc = "streaming"
    /\ res' = Some(ResEnd(res[1], resp[1].body))
    /\ pc' = "done"
    /\ UNCHANGED <<env, s3Config, clock, calls, node, req, upstream, purgeCall, resp, storageCalls, purgeCalls,
                   storageResp, apiResp, error>>

\* reader.read() rejects (the storage connection breaks mid-body): the error
\* reaches the catch block of handleRequest.  Once a chunk has been written
\* setHeader throws there, the promise of handleRequest rejects with nothing
\* to handle it, and the process exits.
StreamFails ==
    /\ pc = "streaming"
    /\ error' = Some("streaming")
    /\ res' = Some(CatchBlock(res[1], "terminated"))
    /\ pc' = IF res[1].headersSent THEN "crashed" ELSE "done"
    /\ UNCHANGED <<env, s3Config, clock, calls, node, req, upstream, purgeCall, resp, storageCalls, purgeCalls,
                   storageResp, apiResp>>

\* The storage fetch rejects: the error reaches the catch block of handleRequest.
StorageFails ==
    /\ pc = "storage"
    /\ resp' = Some(ServerError("fetch failed"))
    /\ res' = Some(CatchBlock(res[1], "fetch failed"))
    /\ error' = Some("storage fetch")
    /\ pc' = "done"
    /\ UNCHANGED <<env, s3Config, clock, calls, node, req, upstream, purgeCall, storageCalls, purgeCalls, storageResp, apiResp>>

\* The purge-API fetch resolves; a body that is no JSON makes json() throw
\* into the catch block of handlePurgeRequest.
PurgeApiResponds(purgeResp) ==
    /\ pc = "purgeApi"
    /\ resp' = Some(PurgeRelay(GetProp(JsonParse(req[1].body)[1], "url"), purgeResp))
    /\ res' = Some(webResponseToNodeResponse(resp'[1], res[1]))
    /\ error' = IF JsonParse(purgeResp.body) = None THEN Some("purge handling") ELSE None
    /\ apiResp' = Some(purgeResp)
    /\ pc' = "done"
    /\ UNCHANGED <<env, s3Config, clock, calls, node, req, upstream, purgeCall, storageCalls, purgeCalls, storageResp>>

\* The purge-API fetch rejects: the catch block of handlePurgeRequest.
PurgeApiFails ==
    /\ pc = "purgeApi"
    /\ resp' = Some(PurgeInternalError("fetch failed"))
    /\ res' = Some(webResponseToNodeResponse(resp'[1], res[1]))
    /\ error' = Some("purge handling")
    /\ pc' = "done"
    /\ UNCHANGED <<env, s3Config, clock, calls, node, req, upstream, purgeCall, storageCalls, purgeCalls, storageResp, apiResp>>

\* The response is out; the server takes the next request.
NextRequest ==
    /\ pc = "done"
    /\ pc' = "idle"
    /\ node' = None
    /\ req' = None
    /\ upstream' = None
    /\ purgeCall' = None
    /\ resp' = None
    /\ storageCalls' = 0
    /\ purgeCalls' = 0
    /\ storageResp' = None
    /\ apiResp' = None
    /\ res' = None
    /\ error' = None
    /\ UNCHANGED <<env, s3Config, clock, calls>>

Next ==
    \/ \E n \in NodeRequests, now \in Instants : HandleRequest(n, now)
    \/ \E originResp \in StorageResponses : StorageResponds(originResp)
    \/ StreamChunk
    \/ StreamEnds
    \/ StreamFails
    \/ StorageFails
    \/ \E purgeResp \in PurgeApiResponses : PurgeApiResponds(purgeResp)
    \/ PurgeApiFails
    \/ NextRequest

Spec == Init /\ [][Next]_vars

-----------------------------------------------------------------------------
(* Origin authorization on its own: the preflight of a non-font path, for  *)
(* every configured list and every hostname below.                         *)

OriginDomainLists ==
    {None, Some(""), Some(" , "), Some("a.io"), Some("A.io"), Some("b.io, a.io"),
     Some("x.a.io"), Some("io"), Some("a.io,B.io"), Some(" a.io ")}

OriginHostnames ==
    {"a.io", "A.io", "x.a.io", "X.A.IO", "xa.io", "a.io.x", "b.io", "B.io", "io",
     "x.y.a.io", "a.iox", "a-io"}

OriginRequests ==
    {NodeRequest(m, "/app.js?v=1",
                 HostLine \o <<<<"X-Forwarded-Proto", "https">>, <<"Origin", "https://" \o h>>>>,
                 NoBody) :
        m \in {"OPTIONS", "GET"}, h \in OriginHostnames}

InitOrigin ==
    /\ env \in {[BaseEnv EXCEPT !.ALLOWED_ORIGINS = a] : a \in OriginDomainLists}
    /\ s3Config = AwsS3Json
    /\ Idle

NextOrigin ==
    \/ \E n \in OriginRequests, now \in Instants : HandleRequest(n, now)
    \/ \E originResp \in StorageResponses : StorageResponds(originResp)
    \/ StreamEnds
    \/ NextRequest

SpecOrigin == InitOrigin /\ [][NextOrigin]_vars

-----------------------------------------------------------------------------
(* The proxy pipeline started on a secret/aws-s3.json that has any subset  *)
(* of the five fields.                                                     *)

ConfigFiles ==
    {[f \in DOMAIN AwsS3Json |-> IF f \in S THEN AwsS3Json[f] ELSE None] :
        S \in SUBSET (DOMAIN AwsS3Json)}

ConfigRequests ==
    {NodeRequest(m, "/img/logo.png?v=2", HostLine \o <<<<"X-Forwarded-Proto", "https">>>>, NoBody) :
        m \in {"GET", "HEAD"}}

InitConfig == env = BaseEnv /\ s3Config \in ConfigFiles /\ Idle

NextConfig ==
    \/ \E n \in ConfigRequests, now \in Instants : HandleRequest(n, now)
    \/ \E originResp \in StorageResponses : StorageResponds(originResp)
    \/ StorageFails
    \/ StreamChunk
    \/ StreamEnds
    \/ NextRequest

SpecConfig == InitConfig /\ [][NextConfig]_vars

-----------------------------------------------------------------------------
(* signAwsRequest step by step: every await is a point at which the clock  *)
(* may advance and another invocation may run.                             *)

SignRequests ==
    {[method |-> "GET", url |-> "https://assets.s3.example.com/app.js?v=1", payload |-> ""],
     [method |-> "PUT", url |-> "https://assets.s3.example.com/up/file.bin", payload |-> "data"]}

\* A credential scope dated by the clock as it reads when the scope is built.
ScopeOnClock(l) ==
    CredentialScope(SubSeq(AmzDateOf(Ticks[clock]), 1, 8), Text(s3Config.region), "s3")

\* credentialScope, from the locals l of the invocation.
ScopeOf(l) == CredentialScope(l.dateStamp, Text(s3Config.region), "s3")

\* Entry to the first await: now, amzDate and dateStamp are taken, sha256 of
\* the payload is awaited.
SignStart(c, r) ==
    /\ calls[c].at = "idle"
    /\ calls' = [calls EXCEPT ![c] =
          [@ EXCEPT !.at = "payloadHash", !.method = r.method, !.url = r.url,
                    !.payload = r.payload, !.began = clock,
                    !.amzDate = AmzDateOf(Ticks[clock]),
                    !.dateStamp = SubSeq(AmzDateOf(Ticks[clock]), 1, 8)]]
    /\ UNCHANGED <<env, s3Config, pc, node, req, upstream, purgeCall, resp, storageCalls,
                   purgeCalls, storageResp, apiResp, res, error, clock>>

\* The payload hash resolves: canonical request and credential scope are
\* built, sha256 of the canonical request is awaited.
SignPayloadHashed(c) ==
    /\ calls[c].at = "payloadHash"
    /\ calls' = [calls EXCEPT ![c] =
          [@ EXCEPT !.at = "requestHash",
                    !.payloadHash = Sha256Hex(calls[c].payload),
                    !.canonicalRequest =
                        CanonicalRequest(calls[c].method, ParseURL(calls[c].url),
                                         Sha256Hex(calls[c].payload), calls[c].amzDate),
                    !.credentialScope = ScopeOf(calls[c])]]
    /\ UNCHANGED <<env, s3Config, pc, node, req, upstream, purgeCall, resp, storageCalls,
                   purgeCalls, storageResp, apiResp, res, error, clock>>

\* The canonical request hash resolves: the string to sign is built, the
\* signing key is awaited.
SignRequestHashed(c) ==
    /\ calls[c].at = "requestHash"
    /\ calls' = [calls EXCEPT ![c] =
          [@ EXCEPT !.at = "signingKey",
                    !.stringToSign = StringToSign(calls[c].amzDate, calls[c].credentialScope,
                                                  calls[c].canonicalRequest)]]
    /\ UNCHANGED <<env, s3Config, pc, node, req, upstream, purgeCall, resp, storageCalls,
                   purgeCalls, storageResp, apiResp, res, error, clock>>

\* getSignatureKey resolves: the signature is awaited.
SignKeyDerived(c) ==
    /\ calls[c].at = "signingKey"
    /\ calls' = [calls EXCEPT ![c] =
          [@ EXCEPT !.at = "signature",
                    !.signingKey = getSignatureKey(s3Config.secretAccessKey, calls[c].dateStamp,
                                                   s3Config.region, "s3")]]
    /\ UNCHANGED <<env, s3Config, pc, node, req, upstream, purgeCall, resp, storageCalls,
                   purgeCalls, storageResp, apiResp, res, error, clock>>

\* The signature resolves: the three headers are returned.
SignReturn(c) ==
    /\ calls[c].at = "signature"
    /\ calls' = [calls EXCEPT ![c] =
          [@ EXCEPT !.at = "returned",
                    !.out = << <<"x-amz-date", calls[c].amzDate>>,
                               <<"x-amz-content-sha256", calls[c].payloadHash>>,
                               <<"Authorization",
                                 AuthorizationHeader(Text(s3Config.accessKeyId),
                                     calls[c].credentialScope,
                                     HmacSha256(calls[c].signingKey, calls[c].stringToSign))>> >>]]
    /\ UNCHANGED <<env, s3Config, pc, node, req, upstream, purgeCall, resp, storageCalls,
                   purgeCalls, storageResp, apiResp, res, error, clock>>

\* Time passes.
Tick ==
    /\ clock < Len(Ticks)
    /\ clock' = clock + 1
    /\ UNCHANGED <<env, s3Config, pc, node, req, upstream, purgeCall, resp, storageCalls,
                   purgeCalls, storageResp, apiResp, res, error, calls>>

InitSigner == env = BaseEnv /\ s3Config = AwsS3Json /\ Idle

NextSigner ==
    \/ \E c \in Callers, r \in SignRequests : SignStart(c, r)
    \/ \E c \in Callers : SignPayloadHashed(c)
    \/ \E c \in Callers : SignRequestHashed(c)
    \/ \E c \in Callers : SignKeyDerived(c)
    \/ \E c \in Callers : SignReturn(c)
    \/ Tick

SpecSigner == InitSigner /\ [][NextSigner]_vars

-----------------------------------------------------------------------------
(* Properties.  What the specification says is written with its own        *)
(* literals; the state supplies what the program did.                      *)

\* The seven purge-blocking names as the specification lists them.
BlockedNames ==
    {"x-forwarded-host", "x-host", "x-forwarded-scheme", "x-original-url",
     "x-rewrite-url", "forwarded", "origin"}

CarriesBlockedName(h) == \E k \in DOMAIN h : LowerString(k) \in BlockedNames

LinesCarryBlockedName(lines) ==
    \E i \in 1..Len(lines) : LowerString(lines[i][1]) \in BlockedNames

\* The request in hand, once converted.
ReqMethod == req[1].method
ReqPath   == ParseURL(req[1].url).pathname
ReqOrigin == HeadersGet(req[1].headers, "Origin")

\* The worker redirects the request in hand.
Redirected == StartsWith(req[1].url, "http://") /\ env.DISABLE_HTTPS_REDIRECT = None

\* The storage origin answered the request in hand and the response is written.
ProxiedDone == req # None /\ storageResp # None /\ resp # None

\* The preflight of the request in hand is answered.
PreflightDone == req # None /\ resp # None /\ ~Redirected /\ ReqMethod = "OPTIONS"

RespHeader(name) == HeadersGet(resp[1].headers, name)

\* C1: for every proxied request, whatever the client sent and whatever the
\* storage origin returned, no purge-blocking header name is in the headers
\* sent to the storage origin and none is in the headers returned to the client.
C1_BlockedHeadersNeverCross ==
    /\ upstream # None => ~CarriesBlockedName(upstream[1].headers)
    /\ ProxiedDone => ~CarriesBlockedName(resp[1].headers)

\* C1 happens: the client sent a blocked name, the storage origin returned one,
\* and the response is written.
C1_Witness ==
    /\ ProxiedDone
    /\ upstream # None
    /\ \E i \in 1..Len(node[1].headers) : node[1].headers[i][1] = "FORWARDED"
    /\ LinesCarryBlockedName(node[1].headers)
    /\ CarriesBlockedName(storageResp[1].headers)

\* The font extensions of the decision table.
FontPath(pathname) ==
    \E e \in {".woff", ".woff2", ".ttf", ".otf", ".eot"} : EndsWith(LowerString(pathname), e)

\* The decision table: the granted Access-Control-Allow-Origin, None for row 4.
TableGrant(method, pathname, origin, allowed) ==
    IF FontPath(pathname) THEN Some("*")
    ELSE IF origin # None /\ isOriginAllowed(origin, allowed) THEN origin
    ELSE IF origin \in {None, Some("null")} /\ method \in {"GET", "HEAD", "OPTIONS"}
    THEN Some("*")
    ELSE None

ReqGrant == TableGrant(ReqMethod, ReqPath, ReqOrigin, AllowedDomains(env))

\* The worker answered the request in hand: a preflight, a purge response or a
\* relayed storage response.
WorkerAnswered ==
    /\ req # None
    /\ resp # None
    /\ ~Redirected
    /\ upstream # None => storageResp # None
    /\ purgeCall # None => apiResp # None

\* C2: for every request that is not redirected, the response's
\* Access-Control-Allow-Origin is the one of the first matching row of the
\* decision table: '*' for a font path, the echoed Origin for an allowed
\* Origin, '*' for an absent or 'null' Origin with GET, HEAD or OPTIONS, and
\* none otherwise.
C2_GrantFollowsTable ==
    WorkerAnswered => RespHeader("Access-Control-Allow-Origin") = ReqGrant

\* The hostname h of an Origin header 'https://h'.
HostnameOfOrigin(origin) == SubSeq(origin, 9, Len(origin))

SuffixMatch(h, domains) ==
    \E i \in 1..Len(domains) : h = domains[i] \/ EndsWith(h, "." \o domains[i])

\* C3: a request whose Origin is 'https://h' is authorized (its Origin is
\* echoed) if and only if h equals a configured domain d or ends with '.' d;
\* with an empty or unset list no Origin is authorized.
C3_AuthorizedIffSuffix ==
    (WorkerAnswered /\ ReqOrigin # None /\ StartsWith(ReqOrigin[1], "https://")
        /\ ~FontPath(ReqPath) /\ purgeCall = None /\ ReqMethod \in {"GET", "OPTIONS"})
    => (RespHeader("Access-Control-Allow-Origin") = ReqOrigin
        <=> SuffixMatch(HostnameOfOrigin(ReqOrigin[1]), AllowedDomains(env)))

\* The headers of the preflight response to the request in hand, were it sent
\* with the method OPTIONS.
PreflightHeadersFor(r, e) ==
    fetch([r EXCEPT !.method = "OPTIONS", !.body = NoBody], e, "2026-11-04T10:15:30.123Z").resp.headers

ReqPreflight == PreflightHeadersFor(req[1], env)

\* A GET or HEAD request the decision table grants, answered from storage.
GrantedFinal == ProxiedDone /\ ReqMethod \in {"GET", "HEAD"} /\ ReqGrant # None

\* A preflight the decision table grants.
GrantedPreflight == PreflightDone /\ ReqGrant # None

\* C4 as stated: whenever the decision grants access, the final response to a
\* GET or HEAD request carries the same CORS headers with the same values as
\* the preflight response for the same path and Origin, max-age = 86400
\* included.
C4_SameCorsHeadersWithMaxAge ==
    GrantedFinal =>
        /\ \A name \in {"Access-Control-Allow-Origin", "Access-Control-Allow-Methods",
                        "Access-Control-Allow-Headers", "Access-Control-Max-Age"} :
                RespHeader(name) = HeadersGet(ReqPreflight, name)
        /\ RespHeader("Access-Control-Max-Age") = Some("86400")

\* C4, amended: whenever the decision grants access, the preflight response
\* and the final response to a GET or HEAD request with the same path and
\* Origin carry the same Access-Control-Allow-Origin, Access-Control-Allow-Methods
\* = 'GET, HEAD, OPTIONS' and Access-Control-Allow-Headers = 'Content-Type, Range';
\* Access-Control-Max-Age = 86400 is set on the preflight response only, and
\* the final response carries whatever Access-Control-Max-Age the storage
\* origin returned.
C4_SameGrantHeaders ==
    /\ GrantedFinal =>
        /\ RespHeader("Access-Control-Allow-Origin") = ReqGrant
        /\ RespHeader("Access-Control-Allow-Origin")
              = HeadersGet(ReqPreflight, "Access-Control-Allow-Origin")
        /\ RespHeader("Access-Control-Allow-Methods") = Some("GET, HEAD, OPTIONS")
        /\ HeadersGet(ReqPreflight, "Access-Control-Allow-Methods") = Some("GET, HEAD, OPTIONS")
        /\ RespHeader("Access-Control-Allow-Headers") = Some("Content-Type, Range")
        /\ HeadersGet(ReqPreflight, "Access-Control-Allow-Headers") = Some("Content-Type, Range")
        /\ HeadersGet(ReqPreflight, "Access-Control-Max-Age") = Some("86400")
        /\ RespHeader("Access-Control-Max-Age")
              = HeadersGet(storageResp[1].headers, "Access-Control-Max-Age")
    /\ GrantedPreflight =>
        /\ RespHeader("Access-Control-Allow-Origin") = ReqGrant
        /\ RespHeader("Access-Control-Allow-Methods") = Some("GET, HEAD, OPTIONS")
        /\ RespHeader("Access-Control-Allow-Headers") = Some("Content-Type, Range")
        /\ RespHeader("Access-Control-Max-Age") = Some("86400")

\* C4 happens: a font path requested with an allowed Origin is answered from
\* storage with '*', while the storage origin returned a max-age of its own.
C4_Witness ==
    /\ GrantedFinal
    /\ FontPath(ReqPath)
    /\ ReqOrigin = Some("https://www.example.com")
    /\ isOriginAllowed(ReqOrigin, AllowedDomains(env))
    /\ RespHeader("Access-Control-Allow-Origin") = Some("*")
    /\ storageResp[1].status = 200

\* C5: for every proxied request that falls through to row 4 of the decision
\* table, the final response carries no Access-Control-Allow-Origin, -Methods
\* or -Headers, whatever the storage origin's response contained.
C5_NoGrantOnRowFour ==
    (ProxiedDone /\ ReqGrant = None) =>
        /\ RespHeader("Access-Control-Allow-Origin") = None
        /\ RespHeader("Access-Control-Allow-Methods") = None
        /\ RespHeader("Access-Control-Allow-Headers") = None

\* The request in hand arrived over http.
OverHttp == req # None /\ StartsWith(req[1].url, "http://")

\* C6: a request over http with the redirect-disable flag unset is answered,
\* whatever its method, path, headers or body, with a 301 whose Location is the
\* same URL with the scheme changed to https, and no storage fetch and no
\* purge-API call is made for it; with the flag set no request is redirected.
C6_HttpIsRedirected ==
    /\ (OverHttp /\ env.DISABLE_HTTPS_REDIRECT = None) =>
        /\ pc = "done"
        /\ resp[1].status = 301
        /\ RespHeader("Location") = Some("https" \o SubSeq(req[1].url, 5, Len(req[1].url)))
        /\ storageCalls = 0 /\ purgeCalls = 0
        /\ upstream = None /\ purgeCall = None
    /\ (req # None /\ env.DISABLE_HTTPS_REDIRECT # None /\ resp # None) =>
        /\ RespHeader("Location") = None
        /\ resp[1].status # 301

\* C6 happens: a POST to /.purge over http is redirected.
C6_Witness ==
    /\ OverHttp
    /\ env.DISABLE_HTTPS_REDIRECT = None
    /\ ReqMethod = "POST"
    /\ ReqPath = "/.purge"
    /\ resp # None
    /\ resp[1].status = 301

\* C7: a request to /.purge with a method other than POST is answered with
\* status 405 and a JSON body holding an error string, and is never forwarded
\* to the storage origin or to the purge API.
C7_PurgeWrongMethodIs405 ==
    (req # None /\ ~Redirected /\ ReqPath = "/.purge" /\ ReqMethod # "POST") =>
        /\ pc = "done"
        /\ resp[1].status = 405
        /\ resp[1].body.kind = "json"
        /\ GetProp(resp[1].body.doc, "error").t = "str"
        /\ storageCalls = 0 /\ purgeCalls = 0

\* The request in hand is addressed to the purge endpoint and not redirected.
ToPurgeEndpoint == req # None /\ ~Redirected /\ ReqPath = "/.purge"

\* POST /.purge with a JSON content type, a parseable body, and the zone id
\* and API credential configured.
WellFormedPurge ==
    /\ ToPurgeEndpoint
    /\ ReqMethod = "POST"
    /\ Includes(OrElse(HeadersGet(req[1].headers, "Content-Type"), ""), "application/json")
    /\ req[1].body.kind = "json"
    /\ env.CF_ZONE_ID # None
    /\ env.CF_API_TOKEN # None

BodyField(k) == GetProp(req[1].body.doc, k)

\* The body's token is the configured purge secret.
TokenMatches == env.CF_PURGE_TOKEN # None /\ BodyField("token") = JStr(env.CF_PURGE_TOKEN[1])

\* C8: for every well-formed purge request, with a purge secret configured and
\* the body's token absent or different from it the response is 401 and the
\* purge API is not called; with no purge secret configured the request is
\* not refused for its token, whatever token is supplied or omitted.
C8_TokenFailsClosed ==
    WellFormedPurge =>
        /\ (env.CF_PURGE_TOKEN # None /\ ~TokenMatches) =>
              /\ pc = "done"
              /\ resp[1].status = 401
              /\ purgeCalls = 0 /\ purgeCall = None
        /\ (env.CF_PURGE_TOKEN = None /\ resp # None) => resp[1].status # 401

\* The request passes the method, content-type, body-parse, configuration and
\* token checks.
PassesChecksBeforeUrl == WellFormedPurge /\ (env.CF_PURGE_TOKEN = None \/ TokenMatches)

\* The body's url field is a string that parses as an absolute URL.
UrlIsAbsoluteString == BodyField("url").t = "str" /\ ParseURL(BodyField("url").s).ok

\* C9: for every purge request that passes the method, content-type,
\* body-parse, configuration and token checks, a url field that is absent, not
\* a string, or a string that is no absolute URL gives a 400 with an error
\* body, and the purge API is not called.
C9_BadUrlIs400 ==
    (PassesChecksBeforeUrl /\ ~UrlIsAbsoluteString) =>
        /\ pc = "done"
        /\ resp[1].status = 400
        /\ resp[1].body.kind = "json"
        /\ GetProp(resp[1].body.doc, "error").t = "str"
        /\ purgeCalls = 0 /\ purgeCall = None

\* C10: for every purge request, the number of calls to the purge API is 0 if
\* a validation step (method, content type, body parse, configuration, token,
\* url) fails and exactly 1 otherwise, whatever the purge API then returns.
C10_PurgeCallCount ==
    ToPurgeEndpoint =>
        purgeCalls = (IF PassesChecksBeforeUrl /\ UrlIsAbsoluteString THEN 1 ELSE 0)

\* The outbound purge payload, its one file entry and that entry's headers.
PayloadDoc     == purgeCall[1].body.doc
PayloadFiles   == GetProp(PayloadDoc, "files")
PayloadFile    == PayloadFiles.a[1]
PayloadHeaders == GetProp(PayloadFile, "headers")

\* The entries of the body's headers object, none when the body has no headers.
BodyHeaderEntries == IF BodyField("headers").t = "obj" THEN BodyField("headers").o ELSE <<>>

\* scheme '://' host of an absolute URL text with a path.
OriginOfUrlText(s) == SubSeq(s, 1, IndexFrom(s, "/", IndexOf(s, ":") + 3) - 1)

Keys(entries) == {entries[i][1] : i \in 1..Len(entries)}

\* C11: for every accepted purge request the outbound payload is
\* { files: [ { url, headers } ] } with exactly one file entry whose url is the
\* body's url unchanged; headers.origin is the origin the body's headers object
\* supplies when it supplies one and the url's own origin (scheme '://' host)
\* otherwise, "https://cdn.example" for the body {"url":"https://cdn.example/a.js"};
\* every other key of the body's headers object is there unchanged, and
\* nothing else is.
C11_PurgePayloadShape ==
    purgeCall # None =>
        /\ PayloadDoc.t = "obj" /\ Keys(PayloadDoc.o) = {"files"} /\ Len(PayloadDoc.o) = 1
        /\ PayloadFiles.t = "arr" /\ Len(PayloadFiles.a) = 1
        /\ PayloadFile.t = "obj" /\ Keys(PayloadFile.o) = {"url", "headers"}
        /\ Len(PayloadFile.o) = 2
        /\ GetProp(PayloadFile, "url") = BodyField("url")
        /\ PayloadHeaders.t = "obj"
        /\ GetProp(PayloadHeaders, "origin") =
              (IF "origin" \in Keys(BodyHeaderEntries)
               THEN GetProp(BodyField("headers"), "origin")
               ELSE JStr(OriginOfUrlText(JsToString(BodyField("url")))))
        /\ (req[1].body.doc = JObj(<<<<"url", JStr("https://cdn.example/a.js")>>>>))
              => GetProp(PayloadHeaders, "origin") = JStr("https://cdn.example")
        /\ \A i \in 1..Len(BodyHeaderEntries) :
              GetProp(PayloadHeaders, BodyHeaderEntries[i][1]) = BodyHeaderEntries[i][2]
        /\ Keys(PayloadHeaders.o) = Keys(BodyHeaderEntries) \cup {"origin"}
        /\ Len(PayloadHeaders.o) = Cardinality(Keys(PayloadHeaders.o))

\* C11 happens: the scenario body with no purge secret configured, and a body
\* whose headers object carries another key, reach the purge API.
C11_Witness ==
    /\ purgeCall # None
    /\ env.CF_PURGE_TOKEN = None
    /\ req[1].body.doc = JObj(<<<<"url", JStr("https://cdn.example/a.js")>>>>)
    /\ GetProp(PayloadHeaders, "origin") = JStr("https://cdn.example")

\* C12: for every purge request that reaches the purge API, the response to
\* the client is the API's outcome verbatim: the API's body and the API's
\* status, on success as on failure.
C12_ApiOutcomeRelayedVerbatim ==
    (apiResp # None /\ resp # None) =>
        /\ resp[1].status = apiResp[1].status
        /\ resp[1].body = apiResp[1].body

\* C13: every proxied response carries exactly the error policy in
\* Cache-Control when storage answered 404 or 403 and exactly the success
\* policy for every other status, whatever Cache-Control storage sent, and
\* its status is the status storage answered.
C13_CacheControlByStatus ==
    ProxiedDone =>
        /\ RespHeader("Cache-Control") =
              Some(IF storageResp[1].status \in {404, 403}
                   THEN "public, max-age=300, s-maxage=31536000, immutable"
                   ELSE "public, max-age=60, s-maxage=31536000, must-revalidate")
        /\ resp[1].status = storageResp[1].status

\* C13 happens: storage answers 404 with a Cache-Control of its own and the
\* client gets the error policy.
C13_Witness ==
    /\ ProxiedDone
    /\ storageResp[1].status = 404
    /\ HeadersGet(storageResp[1].headers, "Cache-Control") = Some("no-cache")
    /\ RespHeader("Cache-Control") = Some("public, max-age=300, s-maxage=31536000, immutable")
    /\ resp[1].status = 404

\* C14: whatever the stage at which an exception is thrown while a request is
\* handled (conversion, storage fetch, purge handling, streaming the body,
\* before or after the status line and headers went out) the process
\* does not exit, the client receives a 500, and the server goes on to the
\* next request.
C14_ExceptionsBecome500 ==
    /\ pc # "crashed"
    /\ error # None =>
          /\ pc = "done"
          /\ res[1].finished
          /\ res[1].wire = Some(500)

\* The status the first failing purge check gives, checks taken in the order
\* method, content type, body parse, required configuration, token, url;
\* 0 when no check fails.
FirstFailingCheck ==
    IF ReqMethod # "POST" THEN 405
    ELSE IF ~Includes(OrElse(HeadersGet(req[1].headers, "Content-Type"), ""), "application/json")
    THEN 400
    ELSE IF req[1].body.kind # "json" THEN 400
    ELSE IF env.CF_ZONE_ID = None \/ env.CF_API_TOKEN = None THEN 500
    ELSE IF env.CF_PURGE_TOKEN # None /\ ~TokenMatches THEN 401
    ELSE IF ~UrlIsAbsoluteString THEN 400
    ELSE 0

\* C15: a request to the purge endpoint that fails one or more of the purge
\* checks is answered with the status of the first check it fails, in the
\* order method, content type, body parse, required configuration, token,
\* url, and is not passed to the purge API or to storage.
C15_FirstFailingCheckDecides ==
    (ToPurgeEndpoint /\ FirstFailingCheck # 0) =>
        /\ pc = "done"
        /\ resp[1].status = FirstFailingCheck
        /\ purgeCalls = 0 /\ storageCalls = 0

\* What the signer returns for the request in hand when called at now.
SignerValues(now) ==
    signAwsRequest(ReqMethod, upstream[1].url, upstream[1].headers,
                   IF ReqMethod \in {"GET", "HEAD"} THEN "" ELSE BodyText(req[1].body),
                   s3Config, now)

\* The three headers of the signer's result as the storage request carries
\* them.
SignerNames == {"x-amz-date", "x-amz-content-sha256", "authorization"}

CarriedSignerHeaders == [n \in SignerNames |-> upstream[1].headers[n]]

\* C16: in every request sent to storage the Host header is the bucket, a
\* dot, and the endpoint, never the Host the client sent, and x-amz-date,
\* x-amz-content-sha256 and Authorization carry exactly the values the
\* signer produced, also when the client sent headers of those names in any
\* letter case.
C16_HostAndSignerHeadersWin ==
    upstream # None =>
        /\ HeadersGet(upstream[1].headers, "Host") = Some(s3Config.bucket[1] \o "." \o s3Config.endpoint[1])
        /\ HeadersGet(upstream[1].headers, "Host") # HeadersGet(req[1].headers, "Host")
        /\ SignerNames \subseteq DOMAIN upstream[1].headers
        /\ \E now \in Instants :
              /\ CarriedSignerHeaders = HeadersFrom(EmptyHeaders, SignerValues(now))
              /\ upstream[1].headers["x-amz-date"] = AmzDateOf(now)
        /\ \A n \in SignerNames :
              HeadersGet(req[1].headers, n) # None =>
                  HeadersGet(upstream[1].headers, n) # HeadersGet(req[1].headers, n)

\* C16 happens: a client that sends X-Amz-Date in its own letter case has it
\* replaced by the signer's timestamp, and its Host by the storage host.
C16_Witness ==
    /\ upstream # None
    /\ HeadersGet(req[1].headers, "x-amz-date") = Some("19700101T000000Z")
    /\ HeadersGet(req[1].headers, "Host") = Some("cdn.example")
    /\ HeadersGet(upstream[1].headers, "x-amz-date") = Some("20261104T101530Z")
    /\ HeadersGet(upstream[1].headers, "Host") = Some("assets.s3.example.com")

\* C17: when secret/aws-s3.json lacks any of bucket, endpoint, region,
\* access key id and secret key the system does not start: it accepts no
\* request, and signs and sends none to storage.
C17_PartialConfigNeverServes ==
    (\E f \in DOMAIN s3Config : s3Config[f] = None) =>
        /\ pc = "idle"
        /\ req = None
        /\ upstream = None
        /\ storageCalls = 0

\* The timestamp of the instant at which invocation c was entered.
EntryStamp(c) == AmzDateOf(Ticks[calls[c].began])

\* C18: every invocation of the signer reads the clock once, on entry, and
\* the timestamp of that one reading is the x-amz-date it returns, the
\* timestamp line of its string to sign, and, by its first eight
\* characters, the date stamp of its credential scope, however far the
\* clock advances during the call and however the steps of concurrent
\* invocations interleave; what it returns is what an uninterrupted call at
\* the entry instant returns.
C18_OneClockReadingPerCall ==
    \A c \in Callers :
        /\ calls[c].at \in {"signingKey", "signature", "returned"} =>
              /\ calls[c].stringToSign =
                    StringToSign(EntryStamp(c),
                        CredentialScope(SubSeq(EntryStamp(c), 1, 8), Text(s3Config.region), "s3"),
                        calls[c].canonicalRequest)
              /\ Includes(calls[c].canonicalRequest, "x-amz-date:" \o EntryStamp(c) \o "\n")
        /\ calls[c].at = "returned" =>
              /\ calls[c].out[1] = <<"x-amz-date", EntryStamp(c)>>
              /\ StartsWith(calls[c].out[3][2],
                    "AWS4-HMAC-SHA256 Credential=AKIDEXAMPLE/" \o SubSeq(EntryStamp(c), 1, 8)
                        \o "/us-east-1/s3/aws4_request,")
              /\ calls[c].out = signAwsRequest(calls[c].method, calls[c].url, EmptyHeaders,
                                               calls[c].payload, s3Config, Ticks[calls[c].began])

\* C18 happens: two invocations entered on either side of midnight have both
\* returned, each with its own date, after their steps interleaved and the
\* clock moved on during the first.
C18_Witness ==
    /\ calls["a"].at = "returned" /\ calls["b"].at = "returned"
    /\ calls["a"].began = 2 /\ calls["b"].began = 3
    /\ calls["a"].out[1] = <<"x-amz-date", "20261104T235959Z">>
    /\ calls["b"].out[1] = <<"x-amz-date", "20261105T000000Z">>
    /\ Includes(calls["a"].out[3][2], "Credential=AKIDEXAMPLE/20261104/")
    /\ Includes(calls["b"].out[3][2], "Credential=AKIDEXAMPLE/20261105/")

====
